---------------------------- MODULE Spec2Model ----------------------------
(***************************************************************************)
(* Color converter: hextoRgb and rgbToHex (colorconver.js) and the two     *)
(* Express routes that call them (server.js).                              *)
(*                                                                         *)
(* JavaScript strings are sequences of one-character strings.  JavaScript  *)
(* values are records tagged by the result of typeof (field t); a finite   *)
(* number is the rational num/den with den a power of ten.                 *)
(***************************************************************************)
EXTENDS Integers, Sequences, FiniteSets, TLC

VARIABLES
    call,       \* the conversion call under study: function name and arguments
    result,     \* its completion: not yet called, returned a value, or threw
    back,       \* the completion of the opposite conversion applied to result
    alt,        \* the completion of the same rgbToHex call in the other call shape
    requests,   \* the requests a route has matched, in order of arrival
    handled,    \* the indices of the requests whose handler has run
    responses   \* per request, the responses sent on it, in order

vars == <<call, result, back, alt, requests, handled, responses>>

pureVars == <<call, result, back, alt>>

serverVars == <<requests, handled, responses>>

---------------------------------------------------------------------------
(* Bounds of the input spaces.                                             *)

\* longest string handed to hextoRgb ("#" and six digits is 7 characters)
MaxHexLen == 7

\* longest text of a path parameter of /rgbtohex swept over all strings
MaxParamLen == 3

\* number of requests the server receives in one behaviour
MaxReq == 2

---------------------------------------------------------------------------
(* Characters.                                                             *)

DecDigits == <<"0", "1", "2", "3", "4", "5", "6", "7", "8", "9">>

LowerDigits == DecDigits \o <<"a", "b", "c", "d", "e", "f">>

UpperDigits == DecDigits \o <<"A", "B", "C", "D", "E", "F">>

Range(f) == {f[i] : i \in DOMAIN f}

\* the character class [0-9A-Fa-f]
HexDigitClass == Range(LowerDigits) \cup Range(UpperDigits)

\* the value of a digit character in a radix up to 16, either letter case
DigitValue(c) ==
    (CHOOSE i \in 1..16 : LowerDigits[i] = c \/ UpperDigits[i] = c) - 1

---------------------------------------------------------------------------
(* JavaScript values and completions.                                      *)

Undefined == [t |-> "undefined"]

Null == [t |-> "null"]

NaN == [t |-> "number", k |-> "nan"]

PosInfinity == [t |-> "number", k |-> "inf"]

NegInfinity == [t |-> "number", k |-> "ninf"]

\* the finite number n/d
Num(n, d) == [t |-> "number", k |-> "fin", num |-> n, den |-> d]

Integer(n) == Num(n, 1)

Str(s) == [t |-> "string", s |-> s]

\* an object with the own properties DOMAIN props
Obj(props) == [t |-> "object", props |-> props]

\* property read: a property the object does not have reads as undefined
Get(o, p) == IF p \in DOMAIN o.props THEN o.props[p] ELSE Undefined

NotCalled == [type |-> "none"]

Return(v) == [type |-> "return", value |-> v]

Throw(msg) == [type |-> "throw", message |-> msg]

---------------------------------------------------------------------------
(* String.prototype and parseInt, as hextoRgb uses them.                   *)

\* the pattern without its end anchor: /^#?[0-9A-Fa-f]{6}/
HexPatternTest_unanchored(s) ==
    \E start \in {0, 1} :
        /\ start = 1 => (Len(s) >= 1 /\ s[1] = "#")
        /\ Len(s) >= start + 6
        /\ \A i \in 1..6 : s[start + i] \in HexDigitClass

\* /^#?[0-9A-Fa-f]{6}$/.test(s): no flags, so ^ and $ are the two ends of s
HexPatternTest(s) ==
    \E start \in {0, 1} :
        /\ start = 1 => (Len(s) >= 1 /\ s[1] = "#")
        /\ Len(s) = start + 6
        /\ \A i \in 1..6 : s[start + i] \in HexDigitClass

\* the "#" left in place
RemoveFirst_kept(s, c) == s

\* s.replace(c, ""): a string pattern removes the first occurrence only
RemoveFirst(s, c) ==
    IF \E i \in 1..Len(s) : s[i] = c
    THEN LET i == CHOOSE j \in 1..Len(s) :
                      s[j] = c /\ \A m \in 1..(j - 1) : s[m] # c
         IN  SubSeq(s, 1, i - 1) \o SubSeq(s, i + 1, Len(s))
    ELSE s

Min(a, b) == IF a <= b THEN a ELSE b

\* s.substring(from, to) for 0 <= from <= to: indices are clamped to the length
Substring(s, from, to) == SubSeq(s, Min(from, Len(s)) + 1, Min(to, Len(s)))

\* the value of a string of digits in a radix, most significant first
RECURSIVE DigitsValue(_, _)
DigitsValue(s, radix) ==
    IF s = <<>> THEN 0
    ELSE radix * DigitsValue(SubSeq(s, 1, Len(s) - 1), radix) + DigitValue(s[Len(s)])

\* the longest prefix of s made of characters of class
RECURSIVE PrefixIn(_, _)
PrefixIn(s, class) ==
    IF s # <<>> /\ s[1] \in class
    THEN <<s[1]>> \o PrefixIn(Tail(s), class)
    ELSE <<>>

\* parseInt(s, 16) on a string with no leading white space, sign or 0x:
\* the longest prefix of hex digits, NaN when there is none
ParseInt16(s) ==
    LET digits == PrefixIn(s, HexDigitClass)
    IN  IF digits = <<>> THEN NaN ELSE Integer(DigitsValue(digits, 16))

---------------------------------------------------------------------------
(* colorconver.js: hextoRgb.                                               *)

\* g read from the offsets 1..3 in place of 2..4
hextoRgb_offset(hex) ==
    IF ~HexPatternTest(hex)
    THEN Throw("Invalid hex color")
    ELSE LET cleanHex == RemoveFirst(hex, "#")
             r == ParseInt16(Substring(cleanHex, 0, 2))
             g == ParseInt16(Substring(cleanHex, 1, 3))
             b == ParseInt16(Substring(cleanHex, 4, 6))
         IN  Return(Obj([r |-> r, g |-> g, b |-> b]))

hextoRgb(hex) ==
    IF ~HexPatternTest(hex)
    THEN Throw("Invalid hex color")
    ELSE LET cleanHex == RemoveFirst(hex, "#")
             r == ParseInt16(Substring(cleanHex, 0, 2))
             g == ParseInt16(Substring(cleanHex, 2, 4))
             b == ParseInt16(Substring(cleanHex, 4, 6))
         IN  Return(Obj([r |-> r, g |-> g, b |-> b]))

---------------------------------------------------------------------------
(* Number.prototype.toString and String.prototype, as rgbToHex uses them.  *)

\* the radix-16 digits of the natural number n, lower case, no leading zero
RECURSIVE NatToString16(_)
NatToString16(n) ==
    IF n < 16 THEN <<LowerDigits[n + 1]>>
    ELSE NatToString16(n \div 16) \o <<LowerDigits[(n % 16) + 1]>>

\* v.toString(16) for an integral finite number v: a "-" before a negative
\* number's digits
ToString16(v) ==
    LET n == v.num \div v.den
    IN  IF n < 0 THEN <<"-">> \o NatToString16(-n) ELSE NatToString16(n)

\* s.padStart(len, c): c repeated before s until the length is len
RECURSIVE PadStart(_, _, _)
PadStart(s, len, c) == IF Len(s) >= len THEN s ELSE PadStart(<<c>> \o s, len, c)

\* c.toUpperCase() for a character: only the letters change
UpperChar(c) ==
    IF \E i \in 11..16 : LowerDigits[i] = c
    THEN UpperDigits[CHOOSE i \in 11..16 : LowerDigits[i] = c]
    ELSE c

ToUpperCase(s) == [i \in 1..Len(s) |-> UpperChar(s[i])]

---------------------------------------------------------------------------
(* colorconver.js: rgbToHex.                                               *)

\* Number.isFinite(v): v is of type number and neither NaN nor an infinity
NumberIsFinite(v) == v.t = "number" /\ v.k = "fin"

\* Number.isInteger(v): finite with no fractional part
NumberIsInteger(v) == NumberIsFinite(v) /\ v.num % v.den = 0

\* the upper end of the range off by one: v <= 256
isValidComponent_upTo256(v) ==
    /\ NumberIsFinite(v)
    /\ NumberIsInteger(v)
    /\ v.num >= 0
    /\ v.num <= 256 * v.den

isValidComponent(v) ==
    /\ NumberIsFinite(v)
    /\ NumberIsInteger(v)
    /\ v.num >= 0
    /\ v.num <= 255 * v.den

\* no padStart
toTwoHex_unpadded(n) == ToUpperCase(ToString16(n))

\* no toUpperCase
toTwoHex_lower(n) == PadStart(ToString16(n), 2, "0")

toTwoHex(n) == ToUpperCase(PadStart(ToString16(n), 2, "0"))

\* the i-th argument of a call: an argument not passed is undefined
Arg(args, i) == IF i <= Len(args) THEN args[i] ELSE Undefined

\* typeof rOrObj === "object" && rOrObj !== null
IsRecordShape(rOrObj) == rOrObj.t = "object"

rgbToHex(args) ==
    LET rOrObj == Arg(args, 1)
        rVal == IF IsRecordShape(rOrObj) THEN Get(rOrObj, "r") ELSE rOrObj
        gVal == IF IsRecordShape(rOrObj) THEN Get(rOrObj, "g") ELSE Arg(args, 2)
        bVal == IF IsRecordShape(rOrObj) THEN Get(rOrObj, "b") ELSE Arg(args, 3)
    IN  IF ~isValidComponent(rVal) \/ ~isValidComponent(gVal) \/ ~isValidComponent(bVal)
        THEN Throw("Invalid RGB components. Each must be an integer between 0 and 255")
        ELSE Return(Str(<<"#">> \o toTwoHex(rVal) \o toTwoHex(gVal) \o toTwoHex(bVal)))

---------------------------------------------------------------------------
(* Number(text), the conversion server.js applies to a path parameter.     *)

DecDigitClass == Range(DecDigits)

\* StrWhiteSpaceChar: space, tab, line feed, carriage return
WhiteSpaceClass == {" ", "\t", "\n", "\r"}

\* s without its first n characters
Drop(s, n) == SubSeq(s, n + 1, Len(s))

\* s without leading and trailing white space
RECURSIVE Trim(_)
Trim(s) ==
    IF s # <<>> /\ s[1] \in WhiteSpaceClass THEN Trim(Tail(s))
    ELSE IF s # <<>> /\ s[Len(s)] \in WhiteSpaceClass
         THEN Trim(SubSeq(s, 1, Len(s) - 1))
         ELSE s

RECURSIVE Pow10(_)
Pow10(n) == IF n = 0 THEN 1 ELSE 10 * Pow10(n - 1)

\* the digits of each radix
RadixClass(radix) == {LowerDigits[i] : i \in 1..radix} \cup {UpperDigits[i] : i \in 1..radix}

\* NonDecimalIntegerLiteral: 0x, 0o or 0b and then digits of that radix only
NonDecimalLiteral(s) ==
    LET radix == IF Len(s) >= 2 /\ s[1] = "0"
                 THEN IF s[2] \in {"x", "X"} THEN 16
                      ELSE IF s[2] \in {"o", "O"} THEN 8
                      ELSE IF s[2] \in {"b", "B"} THEN 2
                      ELSE 0
                 ELSE 0
        digits == Drop(s, 2)
    IN  IF radix # 0 /\ digits # <<>> /\ \A i \in 1..Len(digits) : digits[i] \in RadixClass(radix)
        THEN Integer(DigitsValue(digits, radix))
        ELSE NaN

Infinity == <<"I", "n", "f", "i", "n", "i", "t", "y">>

\* StrDecimalLiteral: sign, then Infinity, or digits with an optional
\* fraction and exponent: 12  12.  12.5  .5  1e2  1.5e-1
DecimalLiteral(s) ==
    LET signed == s # <<>> /\ s[1] \in {"+", "-"}
        neg == signed /\ s[1] = "-"
        u == IF signed THEN Tail(s) ELSE s
        ip == PrefixIn(u, DecDigitClass)
        a == Drop(u, Len(ip))
        hasDot == a # <<>> /\ a[1] = "."
        fp == IF hasDot THEN PrefixIn(Tail(a), DecDigitClass) ELSE <<>>
        b == IF hasDot THEN Drop(a, 1 + Len(fp)) ELSE a
        hasExp == b # <<>> /\ b[1] \in {"e", "E"}
        c == IF hasExp THEN Tail(b) ELSE b
        expSigned == hasExp /\ c # <<>> /\ c[1] \in {"+", "-"}
        expNeg == expSigned /\ c[1] = "-"
        d == IF expSigned THEN Tail(c) ELSE c
        ep == IF hasExp THEN PrefixIn(d, DecDigitClass) ELSE <<>>
        rest == Drop(d, Len(ep))
        mantissa == DigitsValue(ip \o fp, 10)
        e == DigitsValue(ep, 10)
        num == IF expNeg THEN mantissa ELSE mantissa * Pow10(e)
        den == IF expNeg THEN Pow10(Len(fp)) * Pow10(e) ELSE Pow10(Len(fp))
    IN  IF u = Infinity THEN (IF neg THEN NegInfinity ELSE PosInfinity)
        ELSE IF (ip # <<>> \/ fp # <<>>) /\ (hasExp => ep # <<>>) /\ rest = <<>>
        THEN Num(IF neg THEN -num ELSE num, den)
        ELSE NaN

\* Number(text) for a string: white space is trimmed, the empty string is 0,
\* then a 0x/0o/0b literal or a decimal literal, and NaN for anything else
ToNumber(text) ==
    LET s == Trim(text)
    IN  IF s = <<>> THEN Integer(0)
        ELSE IF NonDecimalLiteral(s) # NaN THEN NonDecimalLiteral(s)
        ELSE DecimalLiteral(s)

---------------------------------------------------------------------------
(* server.js: the two routes.                                              *)

\* res.json(body), the status 200 unless res.status(code) came first
Json(code, body) == [status |-> code, body |-> body]

\* the catch block without res.status(400)
HexToRgbRoute_noStatus(req) ==
    LET c == hextoRgb(req.params.hex)
    IN  IF c.type = "return"
        THEN <<Json(200, c.value)>>
        ELSE <<Json(200, [error |-> c.message])>>

\* the handler of GET /hextorgb/:hex: the responses it sends
HexToRgbRoute(req) ==
    LET c == hextoRgb(req.params.hex)
    IN  IF c.type = "return"
        THEN <<Json(200, c.value)>>
        ELSE <<Json(400, [error |-> c.message])>>

\* the handler of GET /rgbtohex/:r/:g/:b: the responses it sends
RgbToHexRoute(req) ==
    LET r == ToNumber(req.params.r)
        g == ToNumber(req.params.g)
        b == ToNumber(req.params.b)
        c == rgbToHex(<<r, g, b>>)
    IN  IF c.type = "return"
        THEN <<Json(200, [hex |-> c.value.s])>>
        ELSE <<Json(400, [error |-> c.message])>>

HexRequest(h) == [route |-> "hextorgb", params |-> [hex |-> h]]

RgbRequest(r, g, b) == [route |-> "rgbtohex", params |-> [r |-> r, g |-> g, b |-> b]]

\* the requests received and not yet handled
Waiting == (1..Len(requests)) \ handled

---------------------------------------------------------------------------
(* Specification SpecHex: hextoRgb applied to every short string.          *)

\* characters of the strings tried: "#", digits of both letter cases,
\* a letter just outside the class, and white space
\* no request has arrived
NoServer ==
    /\ requests = <<>>
    /\ handled = {}
    /\ responses = <<>>

HexAlphabet == {"#", "0", "F", "a", "G", " "}

InitHex ==
    /\ \E n \in 0..MaxHexLen : \E s \in [1..n -> HexAlphabet] :
           call = [fn |-> "hextoRgb", args |-> <<Str(s)>>]
    /\ result = NotCalled
    /\ back = NotCalled
    /\ alt = NotCalled
    /\ NoServer

CallHextoRgb ==
    /\ call.fn = "hextoRgb"
    /\ result = NotCalled
    /\ result' = hextoRgb(call.args[1].s)
    /\ UNCHANGED <<call, back, alt, serverVars>>

\* rgbToHex(hextoRgb(h)): the record returned is passed as the one argument
RoundTripRgbToHex ==
    /\ call.fn = "hextoRgb"
    /\ result.type = "return"
    /\ back = NotCalled
    /\ back' = rgbToHex(<<result.value>>)
    /\ UNCHANGED <<call, result, alt, serverVars>>

NextHex == CallHextoRgb \/ RoundTripRgbToHex

SpecHex == InitHex /\ [][NextHex]_vars

---------------------------------------------------------------------------
(* Specification SpecRgb: rgbToHex in both call shapes.                    *)

\* every integer from just below to just above the channel range
ChannelInts == {Integer(n) : n \in -1..256}

\* integers tried in all three positions together
SampleInts == {Integer(n) : n \in {-1, 0, 1, 10, 15, 16, 170, 255, 256}}

\* 1.5, 255.5, -0.5
Fractions == {Num(15, 10), Num(2555, 10), Num(-5, 10)}

\* values that are no finite number: missing, null, NaN, the infinities, and
\* the strings "5" and ""
NonNumbers ==
    {Undefined, Null, NaN, PosInfinity, NegInfinity, Str(<<"5">>), Str(<<>>)}

Scalars == SampleInts \cup Fractions \cup NonNumbers

\* a record with any of the fields r, g, b, each holding a scalar
FlatRecords ==
    {Obj(p) : p \in UNION {[d -> Scalars] : d \in SUBSET {"r", "g", "b"}}}

\* records whose fields are all integers, some of them valid colors
ColorRecords ==
    {Obj(p) : p \in [{"r", "g", "b"} -> {Integer(n) : n \in {0, 170, 255, 256}}]}

\* records with a record in the field r
NestedRecords ==
    {Obj([r |-> o, g |-> v, b |-> v]) :
        o \in ColorRecords, v \in {Undefined, Integer(0), Integer(256)}}

\* one channel over all of ChannelInts, the two others at an end of the range
SweepTriples ==
    {[j \in 1..3 |-> IF j = i THEN n ELSE o[j]] :
        i \in 1..3, n \in ChannelInts, o \in [1..3 -> {Integer(0), Integer(255)}]}

RgbArgLists ==
    [1..3 -> Scalars]
    \cup SweepTriples
    \cup {<<>>, <<Integer(0)>>, <<Integer(0), Integer(0)>>}
    \cup {<<o>> : o \in FlatRecords \cup NestedRecords}
    \cup {<<o, v, v>> : o \in ColorRecords, v \in {Integer(0), Integer(256)}}

InitRgb ==
    /\ call \in {[fn |-> "rgbToHex", args |-> a] : a \in RgbArgLists}
    /\ result = NotCalled
    /\ back = NotCalled
    /\ alt = NotCalled
    /\ NoServer

CallRgbToHex ==
    /\ call.fn = "rgbToHex"
    /\ result = NotCalled
    /\ result' = rgbToHex(call.args)
    /\ UNCHANGED <<call, back, alt, serverVars>>

\* hextoRgb(rgbToHex(...)): the string returned is passed back
RoundTripHextoRgb ==
    /\ call.fn = "rgbToHex"
    /\ result.type = "return"
    /\ back = NotCalled
    /\ back' = hextoRgb(result.value.s)
    /\ UNCHANGED <<call, result, alt, serverVars>>

\* the call rgbToHex(rec) made again as rgbToHex(rec.r, rec.g, rec.b)
CallPositional ==
    /\ call.fn = "rgbToHex"
    /\ Len(call.args) = 1
    /\ IsRecordShape(call.args[1])
    /\ result # NotCalled
    /\ alt = NotCalled
    /\ alt' = LET rec == call.args[1]
              IN  rgbToHex(<<Get(rec, "r"), Get(rec, "g"), Get(rec, "b")>>)
    /\ UNCHANGED <<call, result, back, serverVars>>

NextRgb == CallRgbToHex \/ RoundTripHextoRgb \/ CallPositional

SpecRgb == InitRgb /\ [][NextRgb]_vars


---------------------------------------------------------------------------
(* Specification Spec: the server receives requests on both routes and     *)
(* handles them one at a time, in any order.                               *)

\* hex parameters: valid with and without "#", bad digit, short, long, blank
HexParams ==
    { <<"#", "F", "F", "0", "0", "A", "A">>,
      <<"f", "f", "0", "0", "a", "a">>,
      <<"Z", "Z", "Z", "Z", "Z", "Z">>,
      <<"F", "F", "0", "0", "A">>,
      <<"F", "F", "0", "0", "A", "A", "0">>,
      <<" ">> }

\* channel parameters: the top of the range, just above it, blank
ChannelParams == {<<"2", "5", "5">>, <<"2", "5", "6">>, <<" ">>}

NoCall ==
    /\ call = [fn |-> "none", args |-> <<>>]
    /\ result = NotCalled
    /\ back = NotCalled
    /\ alt = NotCalled

Init ==
    /\ NoCall
    /\ NoServer

ReceiveHexToRgb ==
    /\ Len(requests) < MaxReq
    /\ \E h \in HexParams : requests' = Append(requests, HexRequest(h))
    /\ responses' = Append(responses, <<>>)
    /\ UNCHANGED <<handled, pureVars>>

ReceiveRgbToHex ==
    /\ Len(requests) < MaxReq
    /\ \E r \in ChannelParams, g \in ChannelParams, b \in ChannelParams :
           requests' = Append(requests, RgbRequest(r, g, b))
    /\ responses' = Append(responses, <<>>)
    /\ UNCHANGED <<handled, pureVars>>

HandleHexToRgb(id) ==
    /\ id \in Waiting
    /\ requests[id].route = "hextorgb"
    /\ responses' = [responses EXCEPT ![id] = @ \o HexToRgbRoute(requests[id])]
    /\ handled' = handled \cup {id}
    /\ UNCHANGED <<requests, pureVars>>

\* the parameters read from the /rgbtohex request that arrived last, as when
\* they are kept in a variable the requests share
HandleRgbToHex_lastRequest(id) ==
    /\ id \in Waiting
    /\ requests[id].route = "rgbtohex"
    /\ LET last == CHOOSE j \in 1..Len(requests) :
                       /\ requests[j].route = "rgbtohex"
                       /\ \A k \in (j + 1)..Len(requests) : requests[k].route # "rgbtohex"
       IN  responses' = [responses EXCEPT ![id] = @ \o RgbToHexRoute(requests[last])]
    /\ handled' = handled \cup {id}
    /\ UNCHANGED <<requests, pureVars>>

HandleRgbToHex(id) ==
    /\ id \in Waiting
    /\ requests[id].route = "rgbtohex"
    /\ responses' = [responses EXCEPT ![id] = @ \o RgbToHexRoute(requests[id])]
    /\ handled' = handled \cup {id}
    /\ UNCHANGED <<requests, pureVars>>

Handle == \E id \in 1..Len(requests) : HandleHexToRgb(id) \/ HandleRgbToHex(id)

Next == ReceiveHexToRgb \/ ReceiveRgbToHex \/ Handle

Spec == Init /\ [][Next]_vars

---------------------------------------------------------------------------
(* Specification SpecRoute: one request, its parameters swept over every   *)
(* short text.                                                             *)

ParamAlphabet == {"0", "2", "5", "6", "-", ".", " ", "x"}

ParamTexts == UNION {[1..n -> ParamAlphabet] : n \in 1..MaxParamLen}

\* the texts of the two parameters that are not swept
EndTexts == {<<"0">>, <<"2", "5", "5">>}

\* one parameter over all of ParamTexts, the two others at an end of the range
SweepRequests ==
    {RgbRequest(t[1], t[2], t[3]) :
        t \in {[j \in 1..3 |-> IF j = i THEN s ELSE o[j]] :
                  i \in 1..3, s \in ParamTexts,
                  o \in [1..3 -> EndTexts]}}

InitRoute ==
    /\ NoCall
    /\ requests \in {<<q>> : q \in SweepRequests \cup {HexRequest(h) : h \in HexParams}}
    /\ handled = {}
    /\ responses = <<<<>>>>

NextRoute == Handle

SpecRoute == InitRoute /\ [][NextRoute]_vars

---------------------------------------------------------------------------
(* What the claims speak of, stated apart from the code's own helpers.     *)

\* the value of each character of [0-9A-Fa-f]
HexCharValue ==
    ("0" :> 0) @@ ("1" :> 1) @@ ("2" :> 2) @@ ("3" :> 3) @@ ("4" :> 4) @@
    ("5" :> 5) @@ ("6" :> 6) @@ ("7" :> 7) @@ ("8" :> 8) @@ ("9" :> 9) @@
    ("a" :> 10) @@ ("b" :> 11) @@ ("c" :> 12) @@ ("d" :> 13) @@ ("e" :> 14) @@
    ("f" :> 15) @@ ("A" :> 10) @@ ("B" :> 11) @@ ("C" :> 12) @@ ("D" :> 13) @@
    ("E" :> 14) @@ ("F" :> 15)

\* the upper-case form of each lower-case hex letter
UpperOfLetter ==
    ("a" :> "A") @@ ("b" :> "B") @@ ("c" :> "C") @@ ("d" :> "D") @@
    ("e" :> "E") @@ ("f" :> "F")

Uppercased(s) ==
    [i \in 1..Len(s) |->
        IF s[i] \in DOMAIN UpperOfLetter THEN UpperOfLetter[s[i]] ELSE s[i]]

\* s with one leading "#" taken off, when it has one
WithoutHash(s) == IF Len(s) >= 1 /\ s[1] = "#" THEN Tail(s) ELSE s

\* s is an optional single leading "#" and then exactly six hex digits
WellFormedHex(s) ==
    /\ Len(WithoutHash(s)) = 6
    /\ \A i \in 1..6 : WithoutHash(s)[i] \in DOMAIN HexCharValue

\* the base-16 value of the two digits of s at the 0-based offsets i and i+1
PairValue(s, i) == 16 * HexCharValue[s[i + 1]] + HexCharValue[s[i + 2]]

\* v is a number with an integer value in [0, 255]
IsChannel(v) ==
    /\ v.t = "number"
    /\ v.k = "fin"
    /\ \E n \in 0..255 : v.num = n * v.den

\* the integer value of a channel
ChannelValue(v) == v.num \div v.den

\* the three values a call of rgbToHex validates: the fields r, g, b of the
\* record when the first argument is a record, the three arguments otherwise
Resolved(args) ==
    IF Len(args) >= 1 /\ args[1].t = "object"
    THEN <<Get(args[1], "r"), Get(args[1], "g"), Get(args[1], "b")>>
    ELSE <<Arg(args, 1), Arg(args, 2), Arg(args, 3)>>

\* n in [0, 255] as two upper-case hex digits
TwoDigits(n) == <<UpperDigits[(n \div 16) + 1], UpperDigits[(n % 16) + 1]>>

\* the record {r, g, b} of three integers
Color(r, g, b) == Obj([r |-> Integer(r), g |-> Integer(g), b |-> Integer(b)])

InvalidRgbMessage ==
    "Invalid RGB components. Each must be an integer between 0 and 255"

HexCalled == call.fn = "hextoRgb" /\ result # NotCalled

RgbCalled == call.fn = "rgbToHex" /\ result # NotCalled

---------------------------------------------------------------------------
(* Claims about hextoRgb (SpecHex).                                        *)

\* C1: hextoRgb(s) returns exactly when the whole of s is an optional single
\* leading "#" and then six characters of [0-9A-Fa-f]; for every other string
\* it throws the error "Invalid hex color", which carries no r, g or b.
C1_HexAcceptedIffWellFormed ==
    HexCalled =>
        LET s == call.args[1].s
        IN  /\ (result.type = "return") <=> WellFormedHex(s)
            /\ ~WellFormedHex(s) => result = Throw("Invalid hex color")

\* a run of seven hex digits with no "#" has been rejected
C1_Witness ==
    /\ HexCalled
    /\ call.args[1].s = <<"F", "F", "0", "0", "a", "a", "0">>
    /\ result = Throw("Invalid hex color")

\* C2: for a valid hex string, hextoRgb returns the record whose r, g, b are
\* the base-16 values of digits 0-1, 2-3, 4-5 of the string without its "#",
\* each an integer in [0, 255].
C2_HexChannels ==
    (HexCalled /\ WellFormedHex(call.args[1].s)) =>
        LET d == WithoutHash(call.args[1].s)
        IN  /\ result = Return(Color(PairValue(d, 0), PairValue(d, 2), PairValue(d, 4)))
            /\ \A p \in {"r", "g", "b"} : IsChannel(Get(result.value, p))

\* "#FF00aa" has been converted to {r: 255, g: 0, b: 170}
C2_Witness ==
    /\ HexCalled
    /\ call.args[1].s = <<"#", "F", "F", "0", "0", "a", "a">>
    /\ result = Return(Color(255, 0, 170))

\* C5: round trip: for a valid hex string h, rgbToHex(hextoRgb(h)) returns h
\* upper-cased with a single leading "#".
C5_RoundTripHex ==
    (call.fn = "hextoRgb" /\ back # NotCalled) =>
        back = Return(Str(<<"#">> \o Uppercased(WithoutHash(call.args[1].s))))

\* "aaF0Fa", which has no "#", has come back as "#AAF0FA"
C5_Witness ==
    /\ call.fn = "hextoRgb"
    /\ call.args[1].s = <<"a", "a", "F", "0", "F", "a">>
    /\ back = Return(Str(<<"#", "A", "A", "F", "0", "F", "A">>))

---------------------------------------------------------------------------
(* Claims about rgbToHex (SpecRgb).                                        *)

C4_RgbFormat ==
    (RgbCalled /\ \A i \in 1..3 : IsChannel(Resolved(call.args)[i])) =>
        LET v == Resolved(call.args)
        IN  /\ result = Return(Str(<<"#">> \o TwoDigits(ChannelValue(v[1]))
                                          \o TwoDigits(ChannelValue(v[2]))
                                          \o TwoDigits(ChannelValue(v[3]))))
            /\ Len(result.value.s) = 7

\* rgbToHex(255, 0, 170) has returned "#FF00AA"
C4_Witness ==
    /\ RgbCalled
    /\ call.args = <<Integer(255), Integer(0), Integer(170)>>
    /\ result = Return(Str(<<"#", "F", "F", "0", "0", "A", "A">>))

\* C6: inverse round trip: for integers r, g, b in [0, 255],
\* hextoRgb(rgbToHex(r, g, b)) returns the record {r, g, b}.
C6_RoundTripRgb ==
    (call.fn = "rgbToHex" /\ back # NotCalled) =>
        LET v == Resolved(call.args)
        IN  back = Return(Color(ChannelValue(v[1]), ChannelValue(v[2]), ChannelValue(v[3])))

\* (10, 255, 170) has come back from "#0AFFAA"
C6_Witness ==
    /\ call.fn = "rgbToHex"
    /\ call.args = <<Integer(10), Integer(255), Integer(170)>>
    /\ result = Return(Str(<<"#", "0", "A", "F", "F", "A", "A">>))
    /\ back = Return(Color(10, 255, 170))

\* C7: rgbToHex(rec) has the same outcome as rgbToHex(rec.r, rec.g, rec.b),
\* for every record rec, also when a field is missing or invalid.
C7_CallShapesAgree ==
    (call.fn = "rgbToHex" /\ alt # NotCalled) => alt = result

---------------------------------------------------------------------------
(* Claims about the routes (Spec, SpecRoute).                              *)

\* s is the text of an integer in [0, 255]: an optional sign, then decimal
\* digits only
IsByteText(s) ==
    LET u == IF s # <<>> /\ s[1] \in {"+", "-"} THEN Tail(s) ELSE s
    IN  /\ u # <<>>
        /\ \A i \in 1..Len(u) : u[i] \in {"0", "1", "2", "3", "4", "5", "6", "7", "8", "9"}
        /\ DigitsValue(u, 10) <= 255
        /\ s[1] = "-" => DigitsValue(u, 10) = 0

\* the responses a request gets when it is the only request ever made
Alone(req) ==
    IF req.route = "hextorgb" THEN HexToRgbRoute(req) ELSE RgbToHexRoute(req)

\* C8: a GET /hextorgb/{hex} request whose handler has run has exactly one
\* response: 200 with the record {r, g, b} of the digits when hex is a valid
\* hex color string, 400 with {error: "Invalid hex color"} when it is not,
\* whatever was answered before it; a request still waiting has none yet.
C8_HexRouteAnswers ==
    \A id \in 1..Len(requests) :
        requests[id].route = "hextorgb" =>
            LET h == requests[id].params.hex
            IN  /\ id \in handled =>
                    responses[id] =
                        <<IF WellFormedHex(h)
                          THEN Json(200, Color(PairValue(WithoutHash(h), 0),
                                               PairValue(WithoutHash(h), 2),
                                               PairValue(WithoutHash(h), 4)))
                          ELSE Json(400, [error |-> "Invalid hex color"])>>
                /\ id \notin handled => responses[id] = <<>>

\* "ZZZZZZ" was answered 400 and a request that came after it 200
C8_Witness ==
    /\ Len(requests) = 2
    /\ handled = {1, 2}
    /\ requests[1] = HexRequest(<<"Z", "Z", "Z", "Z", "Z", "Z">>)
    /\ responses[1] = <<Json(400, [error |-> "Invalid hex color"])>>
    /\ requests[2] = HexRequest(<<"#", "F", "F", "0", "0", "A", "A">>)
    /\ responses[2] = <<Json(200, Color(255, 0, 170))>>

\* C9: a GET /rgbtohex/{r}/{g}/{b} request whose handler has run has exactly
\* one response, 200 only when each parameter is the text of an integer in
\* [0, 255], and 400 with the InvalidRgb message when any parameter is not
\* (blank, white space, not numeric, fractional, out of range).
C9_RgbRouteRejectsNonIntegerText ==
    \A id \in handled :
        requests[id].route = "rgbtohex" =>
            LET p == requests[id].params
                ok == IsByteText(p.r) /\ IsByteText(p.g) /\ IsByteText(p.b)
            IN  /\ Len(responses[id]) = 1
                /\ responses[id][1].status = 200 => ok
                /\ ~ok => responses[id][1] = Json(400, [error |-> InvalidRgbMessage])

=============================================================================
